---- MODULE Spec2Model ----
(***************************************************************************)
(* The JDWP <-> ADB transport of src/src/jdwp/jdwp_adb.cc as a state       *)
(* machine: the JDWP thread (acceptConnection, receiveClientFd,            *)
(* processIncoming), the thread that runs adbStateShutdown, the final      *)
(* adbStateFree, and the kernel objects they act on (descriptors, the      *)
(* control socket to adbd, the debugger's socket, the wake pipe).          *)
(*                                                                         *)
(* A descriptor is modelled by the identity of the open file it names:    *)
(* every socket(), pipe() and received descriptor gets a fresh number, so  *)
(* that "the same descriptor closed twice" is a fact about one object.     *)
(* The value -1 is the unset sentinel of the code.                         *)
(*                                                                         *)
(* The two threads interleave at every read and write of a shared field   *)
(* and at every system call.  An action gives the variables it assigns as  *)
(* a record; Apply leaves every other variable unchanged.                  *)
(***************************************************************************)
EXTENDS Integers, Sequences, FiniteSets, TLC

(* ------------------------------------------------------------------ *)
(* Program constants                                                   *)
(* ------------------------------------------------------------------ *)

kJDWPHeaderLen == 11

kMagicHandshake == <<74, 68, 87, 80, 45, 72, 97, 110, 100, 115, 104, 97, 107, 101>>

kMagicHandshakeLen == Len(kMagicHandshake)

kInputBufferSize == 8192

kInitialSleepMs == 500

kSleepMaxMs == 2 * 1000

kMaxRetries == 5

kPidChars == 4

NoFd == -1

(* ------------------------------------------------------------------ *)
(* Bounds of the model                                                 *)
(* ------------------------------------------------------------------ *)

\* descriptors the process may allocate before socket() and pipe() fail
\* with EMFILE, in the runs with every thread
MaxFds == 7

\* the same limit in the runs of acceptConnection alone, where one call may
\* need a socket and a pipe for each of its attempts
MaxFdsAccept == 24

\* sleeps of one connector run that are recorded in sleepLog
MaxSleeps == 6

\* the same limit in the runs about the debugger's byte stream: a control
\* socket, a wake pipe, a debugger and a second one
MaxFdsData == 5

\* the same limit in the runs checked for progress: a control socket, a
\* wake pipe, a debugger and a second one
MaxFdsFair == 5

\* the same limit in the runs that fill the input buffer: a control socket,
\* a wake pipe, a debugger and a second one
MaxFdsLarge == 5

\* messages adbd sends over its control connections in one run, with a
\* debugger's descriptor or without one
MaxClients == 2

\* largest packet length a debugger's stream declares
MaxPacketLen == 12

\* the process identifier of the runs that are not about it
SamplePid == 4321

(* ------------------------------------------------------------------ *)
(* Pure helpers                                                        *)
(* ------------------------------------------------------------------ *)

Min(a, b) == IF a < b THEN a ELSE b

\* a back-off that doubles
M_ShiftRight1(n) == n

\* sleep_ms >> 1 on a non-negative int
ShiftRight1(n) == n \div 2

\* the next back-off duration: sleep_ms += (sleep_ms >> 1), capped
NextSleep(ms) ==
    LET grown == ms + ShiftRight1(ms)
    IN  IF grown > kSleepMaxMs THEN kSleepMaxMs ELSE grown

HexChar(d) == SubSeq(<<"0", "1", "2", "3", "4", "5", "6", "7", "8", "9",
                       "a", "b", "c", "d", "e", "f">>, d + 1, d + 1)

\* the digits printf's %x produces for n >= 0, most significant first
RECURSIVE HexDigits(_)
HexDigits(n) == IF n < 16 THEN HexChar(n) ELSE HexDigits(n \div 16) \o HexChar(n % 16)

RECURSIVE ZeroPad(_, _)
ZeroPad(s, width) == IF Len(s) >= width THEN s ELSE ZeroPad(<<"0">> \o s, width)

\* snprintf(buff, size, "%04x", n): the formatted text cut to size-1 chars
Snprintf04x(n, size) ==
    LET full == ZeroPad(HexDigits(n), 4)
    IN  SubSeq(full, 1, Min(Len(full), size - 1))

\* big-endian 32-bit value of the first four bytes of b
Get4BE(b) == ((b[1] * 256 + b[2]) * 256 + b[3]) * 256 + b[4]

\* memcmp(a, b, n) == 0
MemEq(a, b, n) == SubSeq(a, 1, n) = SubSeq(b, 1, n)

\* a JDWP packet of declared length len: the 11-byte header (length, id,
\* flags, command set, command) and len - 11 payload bytes
Packet(len) ==
    <<0, 0, len \div 256, len % 256, 0, 0, 0, 1, 128, 0, 0>>
        \o [i \in 1..(len - kJDWPHeaderLen) |-> 7]

\* the handshake literal with its i-th byte changed
MutatedHandshake(i) ==
    [j \in 1..kMagicHandshakeLen |->
        IF j = i THEN kMagicHandshake[j] + 1 ELSE kMagicHandshake[j]]

\* the byte streams a debugger may send on a connection
GoodScripts ==
    {kMagicHandshake \o Packet(len) : len \in kJDWPHeaderLen..MaxPacketLen}
        \cup {kMagicHandshake \o Packet(MaxPacketLen) \o Packet(kJDWPHeaderLen)}

BadScripts == {MutatedHandshake(i) : i \in 1..kMagicHandshakeLen}

\* a debugger that sends packets without the handshake
NoHandshake == Packet(kJDWPHeaderLen) \o Packet(kJDWPHeaderLen)

Scripts == GoodScripts \cup BadScripts \cup {NoHandshake}

\* every chunk size a stream of Scripts can arrive in
AllChunks == 1..(kMagicHandshakeLen + MaxPacketLen + kJDWPHeaderLen)

\* the streams and the chunk sizes of the runs with every thread: a good
\* handshake, a bad one and none, arriving in halves, whole, or together
\* with the packet
CoarseScripts == {kMagicHandshake \o Packet(kJDWPHeaderLen), MutatedHandshake(1), NoHandshake}

CoarseChunks ==
    {kMagicHandshakeLen \div 2, kJDWPHeaderLen, kMagicHandshakeLen,
     kMagicHandshakeLen + kJDWPHeaderLen}

\* the stream and the chunk sizes of the runs checked for progress: a good
\* handshake and a packet, arriving one by one or together
PlainScripts == {kMagicHandshake \o Packet(kJDWPHeaderLen)}

PlainChunks == {kJDWPHeaderLen, kMagicHandshakeLen, kMagicHandshakeLen + kJDWPHeaderLen}

\* the streams of the runs that fill the input buffer: a handshake and one
\* packet, as long as the buffer or one byte longer
LargeScripts ==
    {kMagicHandshake \o Packet(len) : len \in {kInputBufferSize, kInputBufferSize + 1}}

\* they arrive a half buffer at a time, with or without the handshake in
\* front, or a half buffer and one byte
LargeChunks ==
    {kInputBufferSize \div 2, kInputBufferSize \div 2 + 1,
     kMagicHandshakeLen + kInputBufferSize \div 2}

\* the process identifiers getpid() may return
PidSet == {1, 255, 4321, 65535, 65536, 74565, 1048575}

(* ------------------------------------------------------------------ *)
(* State                                                               *)
(* ------------------------------------------------------------------ *)

VARIABLES
    \* JdwpNetState / JdwpNetStateBase; inputBuffer holds the inputCount
    \* bytes that are buffered
    controlSock, clientSock, wakeFds, shuttingDown,
    inputBuffer, inputCount, awaiting_handshake,
    \* the JDWP thread: position and locals
    pcP, retryCount, sleep_ms, buff, sock, readfds,
    \* the thread running adbStateShutdown: position and locals
    pcS, sClientSock, sControlSock,
    \* the kernel: per-descriptor close count, shut-down sockets, connected
    \* control sockets, sockets whose peer is gone, control sockets with a
    \* descriptor message queued, control sockets with a message without a
    \* descriptor queued, wake pipes holding a byte
    closes, shutFds, connFds, hupFds, msgFds, bareFds, wakeReady,
    \* the debugger: its connection, bytes queued on it, bytes not sent yet;
    \* connections adbd handed over so far
    curClient, pending, unsent, nClients,
    \* inputs of a run: the process identifier, the descriptor limit, the
    \* streams debuggers send and the chunk sizes they arrive in
    pid, rlimit, scripts, chunks,
    \* observations: sleeps of this connector run, receive attempts of this
    \* acceptConnection call, bytes just sent to adbd, bytes echoed to the
    \* debugger and packets handled on this connection, what the last call
    \* returned, descriptors rejected, failed CHECKs, use of a closed
    \* descriptor, whether shutdown found the thread parked in select with
    \* nothing arriving on either channel since, netFree done
    sleepLog, recvAttempts, announced, echoed, handled, lastRet,
    rejected, checkFailed, staleUse, parked, freed

vars == <<controlSock, clientSock, wakeFds, shuttingDown, inputBuffer, inputCount,
          awaiting_handshake, pcP, retryCount, sleep_ms, buff, sock, readfds,
          pcS, sClientSock, sControlSock, closes, shutFds, connFds, hupFds, msgFds,
          bareFds, wakeReady, curClient, pending, unsent, nClients, pid, rlimit, scripts,
          chunks, sleepLog, recvAttempts, announced, echoed, handled, lastRet,
          rejected, checkFailed, staleUse, parked, freed>>

\* the value an action gives variable name: the one in its record u, or old
Upd(u, name, old) == IF name \in DOMAIN u THEN u[name] ELSE old

\* the step that assigns the variables of the record u and no other
Apply(u) ==
    /\ controlSock' = Upd(u, "controlSock", controlSock)
    /\ clientSock' = Upd(u, "clientSock", clientSock)
    /\ wakeFds' = Upd(u, "wakeFds", wakeFds)
    /\ shuttingDown' = Upd(u, "shuttingDown", shuttingDown)
    /\ inputBuffer' = Upd(u, "inputBuffer", inputBuffer)
    /\ inputCount' = Upd(u, "inputCount", inputCount)
    /\ awaiting_handshake' = Upd(u, "awaiting_handshake", awaiting_handshake)
    /\ pcP' = Upd(u, "pcP", pcP)
    /\ retryCount' = Upd(u, "retryCount", retryCount)
    /\ sleep_ms' = Upd(u, "sleep_ms", sleep_ms)
    /\ buff' = Upd(u, "buff", buff)
    /\ sock' = Upd(u, "sock", sock)
    /\ readfds' = Upd(u, "readfds", readfds)
    /\ pcS' = Upd(u, "pcS", pcS)
    /\ sClientSock' = Upd(u, "sClientSock", sClientSock)
    /\ sControlSock' = Upd(u, "sControlSock", sControlSock)
    /\ closes' = Upd(u, "closes", closes)
    /\ shutFds' = Upd(u, "shutFds", shutFds)
    /\ connFds' = Upd(u, "connFds", connFds)
    /\ hupFds' = Upd(u, "hupFds", hupFds)
    /\ msgFds' = Upd(u, "msgFds", msgFds)
    /\ bareFds' = Upd(u, "bareFds", bareFds)
    /\ wakeReady' = Upd(u, "wakeReady", wakeReady)
    /\ curClient' = Upd(u, "curClient", curClient)
    /\ pending' = Upd(u, "pending", pending)
    /\ unsent' = Upd(u, "unsent", unsent)
    /\ nClients' = Upd(u, "nClients", nClients)
    /\ sleepLog' = Upd(u, "sleepLog", sleepLog)
    /\ recvAttempts' = Upd(u, "recvAttempts", recvAttempts)
    /\ announced' = Upd(u, "announced", announced)
    /\ echoed' = Upd(u, "echoed", echoed)
    /\ handled' = Upd(u, "handled", handled)
    /\ lastRet' = Upd(u, "lastRet", lastRet)
    /\ rejected' = Upd(u, "rejected", rejected)
    /\ checkFailed' = Upd(u, "checkFailed", checkFailed)
    /\ staleUse' = Upd(u, "staleUse", staleUse)
    /\ parked' = Upd(u, "parked", parked)
    /\ freed' = Upd(u, "freed", freed)
    /\ UNCHANGED <<pid, rlimit, scripts, chunks>>

\* JdwpNetState(): the state after startup(), for a run with the given inputs
InitWith(pids, limit, streams, sizes) ==
    /\ controlSock = NoFd
    /\ clientSock = NoFd
    /\ wakeFds = <<NoFd, NoFd>>
    /\ shuttingDown = FALSE
    /\ inputBuffer = <<>>
    /\ inputCount = 0
    /\ awaiting_handshake = FALSE
    /\ pcP = "idle"
    /\ retryCount = 0
    /\ sleep_ms = 0
    /\ buff = <<>>
    /\ sock = NoFd
    /\ readfds = {}
    /\ pcS = "idle"
    /\ sClientSock = NoFd
    /\ sControlSock = NoFd
    /\ closes = <<>>
    /\ shutFds = {}
    /\ connFds = {}
    /\ hupFds = {}
    /\ msgFds = {}
    /\ bareFds = {}
    /\ wakeReady = {}
    /\ curClient = NoFd
    /\ pending = <<>>
    /\ unsent = <<>>
    /\ nClients = 0
    /\ pid \in pids
    /\ rlimit = limit
    /\ scripts = streams
    /\ chunks = sizes
    /\ sleepLog = <<>>
    /\ recvAttempts = 0
    /\ announced = <<>>
    /\ echoed = <<>>
    /\ handled = <<>>
    /\ lastRet = <<"none", FALSE>>
    /\ rejected = {}
    /\ checkFailed = FALSE
    /\ staleUse = FALSE
    /\ parked = FALSE
    /\ freed = FALSE

Init == InitWith({SamplePid}, MaxFds, CoarseScripts, CoarseChunks)

(* ------------------------------------------------------------------ *)
(* Descriptors                                                         *)
(* ------------------------------------------------------------------ *)

\* the descriptor the next socket(), pipe() or recvmsg() creates
NextFd == Len(closes) + 1

IsOpen(fd) == fd \in 1..Len(closes) /\ closes[fd] = 0

\* close(fd): one more close of that descriptor; EBADF leaves all as it is
CloseFd(cl, fd) == IF fd \in 1..Len(cl) THEN [cl EXCEPT ![fd] = @ + 1] ELSE cl

\* the kernel forgets what it held for the descriptors fds once they are
\* closed, and a debugger whose connection is closed has no one to talk to
Dropped(fds) ==
    [shutFds |-> shutFds \ fds, connFds |-> connFds \ fds, hupFds |-> hupFds \ fds,
     msgFds |-> msgFds \ fds, bareFds |-> bareFds \ fds,
     wakeReady |-> wakeReady \ fds,
     curClient |-> IF curClient \in fds THEN NoFd ELSE curClient,
     pending |-> IF curClient \in fds THEN <<>> ELSE pending,
     unsent |-> IF curClient \in fds THEN <<>> ELSE unsent]

\* close(fd) as an action's assignments
Close1(fd) == [closes |-> CloseFd(closes, fd)] @@ Dropped({fd})

\* the read end of the pipe whose write end is w
PipeReadEnd(w) == w - 1

(* ------------------------------------------------------------------ *)
(* The JDWP thread's caller (the loop of JdwpState::Run)               *)
(* ------------------------------------------------------------------ *)

\* where the JDWP thread goes when fn returns val: with a connection it
\* calls processIncoming until that fails, then accepts again; it stops
\* when acceptConnection fails
AfterReturn(fn, val) ==
    IF val THEN "connected"
    ELSE IF fn = "acceptConnection" THEN "stopped"
    ELSE "idle"

\* return val from fn: the locals die
Return(fn, val) ==
    [pcP |-> AfterReturn(fn, val), lastRet |-> <<fn, val>>, retryCount |-> 0,
     sleep_ms |-> 0, buff |-> <<>>, sock |-> NoFd, readfds |-> {},
     sleepLog |-> <<>>, announced |-> <<>>]

\* processIncoming returns false: the connection is over
Lost ==
    [echoed |-> <<>>, handled |-> <<>>, parked |-> FALSE]
        @@ Return("processIncoming", FALSE)

Goto(pc) == [pcP |-> pc]

\* leave the select loop's body: readfds is dead
GotoOut(pc) == [pcP |-> pc, readfds |-> {}]

(* ------------------------------------------------------------------ *)
(* acceptConnection                                                    *)
(* ------------------------------------------------------------------ *)

\* the call: int retryCount = 0
A_Entry ==
    /\ pcP = "idle"
    /\ Apply([pcP |-> "acc_retry", retryCount |-> 0, recvAttempts |-> 0])

\* retry: if (netState->shuttingDown) return false
A_Retry ==
    /\ pcP = "acc_retry"
    /\ Apply(IF shuttingDown THEN Return("acceptConnection", FALSE)
             ELSE Goto("acc_control"))

\* if (netState->controlSock < 0): connect to adbd first, else receive
A_Control ==
    /\ pcP = "acc_control"
    /\ Apply(IF controlSock < 0 THEN Goto("acc_socket") ELSE Goto("acc_call_recv"))

\* sleep_ms = 500; netState->controlSock = socket(PF_UNIX, SOCK_STREAM, 0)
A_Socket ==
    /\ pcP = "acc_socket"
    /\ Apply(IF NextFd <= rlimit
                THEN [controlSock |-> NextFd, closes |-> Append(closes, 0),
                      sleep_ms |-> kInitialSleepMs, sleepLog |-> <<>>,
                      pcP |-> "acc_socket_check"]
                ELSE [controlSock |-> NoFd, sleep_ms |-> kInitialSleepMs,
                      sleepLog |-> <<>>, pcP |-> "acc_socket_check"])

\* if (netState->controlSock < 0) return false
A_SocketCheck ==
    /\ pcP = "acc_socket_check"
    /\ Apply(IF controlSock < 0 THEN Return("acceptConnection", FALSE)
             ELSE Goto("acc_pipe"))

\* pipe(netState->wakeFds); snprintf(buff, sizeof(buff), "%04x", getpid())
A_Pipe ==
    /\ pcP = "acc_pipe"
    /\ Apply(IF NextFd + 1 <= rlimit
                THEN [wakeFds |-> <<NextFd, NextFd + 1>>, closes |-> closes \o <<0, 0>>,
                      buff |-> Snprintf04x(pid, kPidChars + 1), pcP |-> "acc_connect"]
                ELSE Return("acceptConnection", FALSE))

\* connect(netState->controlSock, ...) fails or succeeds; under
\* HAVE_ANDROID_OS an untrusted peer is shut down and the call fails
A_Connect ==
    /\ pcP = "acc_connect"
    /\ \E connected \in {b \in BOOLEAN : b => IsOpen(controlSock)}, trusted \in BOOLEAN :
          /\ ~connected => trusted
          /\ Apply(IF ~connected THEN Goto("acc_sleep")
                   ELSE IF trusted
                           THEN [connFds |-> connFds \cup {controlSock}, pcP |-> "acc_send"]
                   ELSE [connFds |-> connFds \cup {controlSock},
                         shutFds |-> shutFds \cup {controlSock}]
                            @@ Return("acceptConnection", FALSE))

\* what send(fd, buff, 4, 0) may return: -1 on a bad or dead socket, else
\* the count of bytes transferred, all four or fewer
SendCounts(fd) ==
    IF ~IsOpen(fd) \/ fd \in shutFds \cup hupFds THEN {-1} ELSE 1..kPidChars

\* ret = TEMP_FAILURE_RETRY(send(netState->controlSock, buff, 4, 0));
\* ret >= 0 leaves the connect loop, anything else returns false
A_Send ==
    /\ pcP = "acc_send"
    /\ \E ret \in SendCounts(controlSock) :
          Apply(IF ret >= 0
                   THEN [announced |-> SubSeq(buff, 1, ret), pcP |-> "acc_call_recv",
                         sleep_ms |-> 0, buff |-> <<>>, sleepLog |-> <<>>]
                   ELSE Return("acceptConnection", FALSE))

\* usleep(sleep_ms * 1000); the back-off; the shuttingDown check
A_Sleep ==
    /\ pcP = "acc_sleep"
    /\ Apply(IF shuttingDown THEN Return("acceptConnection", FALSE)
             ELSE [sleep_ms |-> NextSleep(sleep_ms),
                   sleepLog |-> IF Len(sleepLog) < MaxSleeps
                                   THEN Append(sleepLog, sleep_ms) ELSE sleepLog,
                   pcP |-> "acc_connect"])

(* ------------------------------------------------------------------ *)
(* receiveClientFd, as acceptConnection calls it                       *)
(* ------------------------------------------------------------------ *)

\* recvmsg(fd) does not block: the descriptor is bad or unconnected, a
\* message is queued, the peer is gone or the socket was shut down
RecvReady(fd) ==
    \/ ~IsOpen(fd)
    \/ fd \notin connFds
    \/ fd \in msgFds \cup bareFds
    \/ fd \in hupFds
    \/ fd \in shutFds

\* what recvmsg(fd) returns then: -1 (error), 1 (the dummy byte of a
\* message) or 0 (end of stream)
RecvResult(fd) ==
    IF ~IsOpen(fd) \/ fd \notin connFds THEN -1
    ELSE IF fd \in msgFds \cup bareFds THEN 1
    ELSE 0

\* the message read from fd puts a descriptor into CMSG_DATA: it carries
\* one and the descriptor table has room for it (else MSG_CTRUNC); without
\* one the preset -1 stays there
RecvHasFd(fd) == fd \in msgFds /\ NextFd <= rlimit

\* the message queued on fd is taken off the socket
Taken(fd) == [msgFds |-> msgFds \ {fd}, bareFds |-> bareFds \ {fd}]

\* "trying to receive file descriptor from ADB": enter receiveClientFd
A_CallReceive ==
    /\ pcP = "acc_call_recv"
    /\ Apply([recvAttempts |-> recvAttempts + 1, announced |-> <<>>,
              pcP |-> "acc_recvmsg"])

\* ret = recvmsg(netState->controlSock, &msg, 0); with ret > 0 what is in
\* CMSG_DATA is returned and stored, the received descriptor or the preset
\* -1, and the control socket stays open:
\* netState->clientSock = receiveClientFd()
A_Recvmsg ==
    /\ pcP = "acc_recvmsg"
    /\ RecvReady(controlSock)
    /\ \E stream \in scripts :
          Apply(IF RecvResult(controlSock) > 0
                   THEN IF RecvHasFd(controlSock)
                           THEN [clientSock |-> NextFd, closes |-> Append(closes, 0),
                                 curClient |-> NextFd, pending |-> <<>>,
                                 unsent |-> stream, pcP |-> "acc_post"]
                                    @@ Taken(controlSock)
                           ELSE [clientSock |-> NoFd, pcP |-> "acc_post"]
                                    @@ Taken(controlSock)
                   ELSE Goto("acc_recv_close"))

\* ret <= 0: close(netState->controlSock)
A_RecvClose ==
    /\ pcP = "acc_recv_close"
    /\ Apply(Goto("acc_recv_clear") @@ Close1(controlSock))

\* receiveClientFd closing the control socket and leaving the field set
M_A_RecvClear ==
    /\ pcP = "acc_recv_clear"
    /\ Apply([clientSock |-> NoFd, pcP |-> "acc_post"])

\* netState->controlSock = -1; return -1, stored into netState->clientSock
A_RecvClear ==
    /\ pcP = "acc_recv_clear"
    /\ Apply([controlSock |-> NoFd, clientSock |-> NoFd, pcP |-> "acc_post"])

\* if (netState->shuttingDown) return false
A_PostShutdownCheck ==
    /\ pcP = "acc_post"
    /\ Apply(IF shuttingDown THEN Return("acceptConnection", FALSE)
             ELSE Goto("acc_post_client"))

\* a retry count that is never incremented
M_NextRetryCount(rc) == rc

\* ++retryCount
NextRetryCount(rc) == rc + 1

\* ++retryCount > 5
RetriesExceeded(rc) == rc > kMaxRetries

\* if (netState->clientSock < 0) retry or give up; else the connection is
\* accepted
A_PostClientCheck ==
    /\ pcP = "acc_post_client"
    /\ Apply(IF clientSock < 0
                THEN IF RetriesExceeded(NextRetryCount(retryCount))
                        THEN Return("acceptConnection", FALSE)
                        ELSE [retryCount |-> NextRetryCount(retryCount),
                              pcP |-> "acc_retry"]
                ELSE Goto("acc_accepted"))

\* acceptConnection returning true without SetAwaitingHandshake(true)
M_A_Accepted ==
    /\ pcP = "acc_accepted"
    /\ Apply([inputCount |-> 0, inputBuffer |-> <<>>, echoed |-> <<>>,
              handled |-> <<>>]
                 @@ Return("acceptConnection", TRUE))

\* SetAwaitingHandshake(true), inputCount = 0, return true
A_Accepted ==
    /\ pcP = "acc_accepted"
    /\ Apply([awaiting_handshake |-> TRUE, inputCount |-> 0,
              inputBuffer |-> <<>>, echoed |-> <<>>, handled |-> <<>>]
                 @@ Return("acceptConnection", TRUE))

(* ------------------------------------------------------------------ *)
(* adbStateShutdown, on another thread                                 *)
(* ------------------------------------------------------------------ *)

\* shutdown(fd, SHUT_RDWR) on a descriptor value read earlier: nothing more
\* travels on the socket; on a descriptor closed meanwhile it is a stale use
ShutdownFd(fd) ==
    [shutFds |-> IF IsOpen(fd) THEN shutFds \cup {fd} ELSE shutFds,
     staleUse |-> (staleUse \/ ~IsOpen(fd)),
     unsent |-> IF IsOpen(fd) /\ fd = curClient THEN <<>> ELSE unsent]

\* nothing is pending for a thread waiting in select on readfds
NothingReady ==
    /\ readfds \cap (msgFds \cup bareFds \cup hupFds \cup shutFds \cup wakeReady) = {}
    /\ pending = <<>>

\* the process has not died of a failed CHECK
Alive == pcP # "aborted"

\* netState->shuttingDown = true
S_Start ==
    /\ pcS = "idle"
    /\ Alive
    /\ Apply([shuttingDown |-> TRUE, pcS |-> "s_client",
              parked |-> (pcP = "pi_select" /\ NothingReady)])

\* clientSock = netState->clientSock; if (clientSock >= 0)
S_ReadClient ==
    /\ pcS = "s_client"
    /\ Alive
    /\ Apply(IF clientSock >= 0
                THEN [sClientSock |-> clientSock, pcS |-> "s_shut_client"]
                ELSE [pcS |-> "s_control"])

\* shutdown(clientSock, SHUT_RDWR)
S_ShutClient ==
    /\ pcS = "s_shut_client"
    /\ Alive
    /\ Apply([pcS |-> "s_clear_client", sClientSock |-> NoFd] @@ ShutdownFd(sClientSock))

\* netState->clientSock = -1
S_ClearClient ==
    /\ pcS = "s_clear_client"
    /\ Alive
    /\ Apply([clientSock |-> NoFd, pcS |-> "s_control"])

\* controlSock = netState->controlSock; if (controlSock >= 0)
S_ReadControl ==
    /\ pcS = "s_control"
    /\ Alive
    /\ Apply(IF controlSock >= 0
                THEN [sControlSock |-> controlSock, pcS |-> "s_shut_control"]
                ELSE [pcS |-> "s_wake"])

\* shutdown(controlSock, SHUT_RDWR)
S_ShutControl ==
    /\ pcS = "s_shut_control"
    /\ Alive
    /\ Apply([pcS |-> "s_clear_control", sControlSock |-> NoFd]
                 @@ ShutdownFd(sControlSock))

\* netState->controlSock = -1
S_ClearControl ==
    /\ pcS = "s_clear_control"
    /\ Alive
    /\ Apply([controlSock |-> NoFd, pcS |-> "s_wake"])

\* adbStateShutdown without the write to the wake pipe
M_S_Wake ==
    /\ pcS = "s_wake"
    /\ Alive
    /\ Apply([pcS |-> "done"])

\* if (netState->wakeFds[1] >= 0) write(netState->wakeFds[1], "", 1)
S_Wake ==
    /\ pcS = "s_wake"
    /\ Alive
    /\ Apply([wakeReady |-> IF IsOpen(wakeFds[2])
                               THEN wakeReady \cup {PipeReadEnd(wakeFds[2])}
                               ELSE wakeReady,
              staleUse |-> (staleUse \/ (wakeFds[2] >= 0 /\ ~IsOpen(wakeFds[2]))),
              pcS |-> "done"])

(* ------------------------------------------------------------------ *)
(* adbStateFree, after netShutdown and after the JDWP thread stopped   *)
(* ------------------------------------------------------------------ *)

\* if (fd >= 0) close(fd)
CloseIfSet(cl, fd) == IF fd >= 0 THEN CloseFd(cl, fd) ELSE cl

\* clientSock and controlSock are closed where they are set, the ends of the
\* wake pipe are closed and set to -1
adbStateFree ==
    /\ pcS = "done"
    /\ pcP = "stopped"
    /\ ~freed
    /\ Apply([closes |-> CloseIfSet(CloseIfSet(CloseIfSet(CloseIfSet(closes,
                             clientSock), controlSock), wakeFds[1]), wakeFds[2]),
              wakeFds |-> <<NoFd, NoFd>>, freed |-> TRUE]
                 @@ Dropped({clientSock, controlSock, wakeFds[1], wakeFds[2]}))

(* ------------------------------------------------------------------ *)
(* JdwpNetStateBase and the packet handler                             *)
(* ------------------------------------------------------------------ *)

\* HaveFullPacket(): the whole handshake while it is awaited, afterwards the
\* 11-byte header and as many bytes as its length field declares
HaveFullPacket(awaiting, buf, count) ==
    IF awaiting
       THEN count >= kMagicHandshakeLen
       ELSE count >= kJDWPHeaderLen /\ count >= Get4BE(buf)

\* ConsumeBytes(n): the bytes left in the buffer, moved to its front
ConsumedBuffer(buf, count, n) == SubSeq(buf, n + 1, count)

\* ConsumeBytes(n): the new inputCount
ConsumedCount(count, n) == count - n

(* ------------------------------------------------------------------ *)
(* processIncoming                                                     *)
(* ------------------------------------------------------------------ *)

\* CHECK_GE(netState->clientSock, 0); if (!netState->HaveFullPacket())
PI_Entry ==
    /\ pcP = "connected"
    /\ Apply(IF clientSock < 0 THEN [checkFailed |-> TRUE, pcP |-> "aborted"]
             ELSE IF HaveFullPacket(awaiting_handshake, inputBuffer, inputCount)
                     THEN Goto("pi_dispatch")
             ELSE Goto("pi_fdset"))

\* the descriptors FD_SET puts in readfds: every field that is >= 0
FdSet == {fd \in {controlSock, clientSock, wakeFds[1]} : fd >= 0}

\* FD_ZERO; configure fds; if (maxfd < 0) return false
PI_FdSet ==
    /\ pcP = "pi_fdset"
    /\ Apply(IF FdSet = {} THEN Lost ELSE [readfds |-> FdSet, pcP |-> "pi_select"])

\* select reports fd readable
Readable(fd) ==
    \/ fd \in msgFds \cup bareFds \cup hupFds \cup shutFds \cup wakeReady
    \/ fd = curClient /\ pending # <<>>

\* selCount = select(maxfd+1, &readfds, NULL, NULL, NULL) returns with
\* readfds holding the readable descriptors
PI_SelectReady ==
    /\ pcP = "pi_select"
    /\ \A fd \in readfds : IsOpen(fd)
    /\ \E fd \in readfds : Readable(fd)
    /\ Apply([readfds |-> {fd \in readfds : Readable(fd)}, pcP |-> "pi_after_select"])

\* selCount < 0 with errno == EINTR: continue
PI_SelectIntr ==
    /\ pcP = "pi_select"
    /\ Apply(GotoOut("pi_fdset"))

\* selCount < 0 with another errno: "select failed", goto fail
PI_SelectError ==
    /\ pcP = "pi_select"
    /\ Apply(GotoOut("pi_fail"))

\* the wake pipe first, then the control socket, then the client socket
PI_AfterSelect ==
    /\ pcP = "pi_after_select"
    /\ Apply(IF wakeFds[1] >= 0 /\ wakeFds[1] \in readfds THEN GotoOut("pi_fail")
             ELSE IF controlSock >= 0 /\ controlSock \in readfds THEN Goto("pi_recvmsg")
             ELSE Goto("pi_client"))

\* int sock = receiveClientFd(netState): the recvmsg; with ret > 0 sock is
\* what is in CMSG_DATA, the received descriptor or the preset -1
PI_Recvmsg ==
    /\ pcP = "pi_recvmsg"
    /\ RecvReady(controlSock)
    /\ Apply(IF RecvResult(controlSock) > 0
                THEN IF RecvHasFd(controlSock)
                        THEN [sock |-> NextFd, closes |-> Append(closes, 0),
                              pcP |-> "pi_reject"] @@ Taken(controlSock)
                        ELSE [sock |-> NoFd, pcP |-> "pi_check"] @@ Taken(controlSock)
                ELSE Goto("pi_recv_close"))

\* the second debugger taking the place of the first
M_PI_Reject ==
    /\ pcP = "pi_reject"
    /\ Apply([clientSock |-> sock, sock |-> NoFd, pcP |-> "pi_client"])

\* "Ignoring second debugger -- accepting and dropping": close(sock)
PI_Reject ==
    /\ pcP = "pi_reject"
    /\ Apply([rejected |-> rejected \cup {sock}, sock |-> NoFd, pcP |-> "pi_client"]
                 @@ Close1(sock))

\* receiveClientFd failed: close(netState->controlSock)
PI_RecvClose ==
    /\ pcP = "pi_recv_close"
    /\ Apply(Goto("pi_recv_clear") @@ Close1(controlSock))

\* netState->controlSock = -1; return -1
PI_RecvClear ==
    /\ pcP = "pi_recv_clear"
    /\ Apply([controlSock |-> NoFd, pcP |-> "pi_check"])

\* sock < 0: CHECK_LT(netState->controlSock, 0)
PI_Check ==
    /\ pcP = "pi_check"
    /\ Apply(IF controlSock >= 0
                THEN [checkFailed |-> TRUE, readfds |-> {}, pcP |-> "aborted"]
                ELSE Goto("pi_client"))

\* a read that takes all that is pending, whatever room the buffer has
M_ReadData(fd, count) ==
    IF IsOpen(fd) /\ fd = curClient THEN pending ELSE <<>>

\* the bytes read(fd, inputBuffer + inputCount, capacity) transfers: what is
\* queued on the socket, cut to the room left in the buffer
ReadData(fd, count) ==
    IF IsOpen(fd) /\ fd = curClient
       THEN SubSeq(pending, 1, Min(Len(pending), kInputBufferSize - count))
       ELSE <<>>

\* the count set to what was read last
M_AddRead(count, readCount) == readCount

\* netState->inputCount += readCount
AddRead(count, readCount) == count + readCount

\* if (netState->clientSock >= 0 && FD_ISSET(netState->clientSock, &readfds))
PI_Client ==
    /\ pcP = "pi_client"
    /\ Apply(IF clientSock >= 0 /\ clientSock \in readfds
                THEN GotoOut("pi_read")
                ELSE GotoOut("pi_fdset"))

\* whether read(fd, ...) may fail with EINTR: only a read that can wait for
\* the peer is interrupted by a signal; a read of zero bytes, of a socket
\* that was shut down or of one whose peer is gone returns at once
ReadInterrupted(fd, count) ==
    IF IsOpen(fd) /\ fd \notin shutFds \cup hupFds /\ count < kInputBufferSize
       THEN BOOLEAN
       ELSE {FALSE}

\* a read that goes round the loop again while the packet is incomplete
M_PI_Read ==
    /\ pcP = "pi_read"
    /\ \E intr \in ReadInterrupted(clientSock, inputCount) :
          Apply(LET data == ReadData(clientSock, inputCount)
                    count == AddRead(inputCount, Len(data))
                    buf == SubSeq(SubSeq(inputBuffer, 1, inputCount) \o data, 1, count)
                IN  IF intr THEN Return("processIncoming", TRUE)
                    ELSE IF Len(data) = 0 THEN Goto("pi_fail")
                    ELSE [inputBuffer |-> buf, inputCount |-> count,
                          pending |-> SubSeq(pending, Len(data) + 1, Len(pending))]
                             @@ (IF HaveFullPacket(awaiting_handshake, buf, count)
                                    THEN Goto("pi_dispatch")
                                    ELSE Goto("pi_fdset")))

\* readCount = read(netState->clientSock, ...): EINTR returns true, EOF or
\* another error fails, data is counted and the call returns true unless a
\* full packet is buffered now
PI_Read ==
    /\ pcP = "pi_read"
    /\ \E intr \in ReadInterrupted(clientSock, inputCount) :
          Apply(LET data == ReadData(clientSock, inputCount)
                    count == AddRead(inputCount, Len(data))
                    buf == SubSeq(SubSeq(inputBuffer, 1, inputCount) \o data, 1, count)
                IN  IF intr THEN Return("processIncoming", TRUE)
                    ELSE IF Len(data) = 0 THEN Goto("pi_fail")
                    ELSE [inputBuffer |-> buf, inputCount |-> count,
                          pending |-> SubSeq(pending, Len(data) + 1, Len(pending))]
                             @@ (IF HaveFullPacket(awaiting_handshake, buf, count)
                                    THEN Goto("pi_dispatch")
                                    ELSE Return("processIncoming", TRUE)))

\* a comparison that leaves out the last byte
M_HandshakeMatches(buf) == MemEq(buf, kMagicHandshake, kMagicHandshakeLen - 1)

\* memcmp(netState->inputBuffer, kMagicHandshake, kMagicHandshakeLen) == 0
HandshakeMatches(buf) == MemEq(buf, kMagicHandshake, kMagicHandshakeLen)

\* what write(fd, inputBuffer, kMagicHandshakeLen) may return: -1 on a bad
\* or dead socket, else the count transferred, all of it or a short count
WriteCounts(fd) ==
    IF ~IsOpen(fd) \/ fd \in shutFds \cup hupFds THEN {-1}
    ELSE {1, kMagicHandshakeLen - 1, kMagicHandshakeLen}

\* the handshake: compare, echo, consume, SetAwaitingHandshake(false)
PI_Handshake ==
    /\ pcP = "pi_dispatch"
    /\ awaiting_handshake
    /\ \E cc \in WriteCounts(clientSock) :
          Apply(IF ~HandshakeMatches(inputBuffer) THEN Goto("pi_fail")
                ELSE IF cc # kMagicHandshakeLen
                        THEN [echoed |-> echoed \o SubSeq(inputBuffer, 1,
                                                           IF cc < 0 THEN 0 ELSE cc),
                              pcP |-> "pi_fail"]
                ELSE [echoed |-> echoed \o SubSeq(inputBuffer, 1, cc),
                      inputBuffer |-> ConsumedBuffer(inputBuffer, inputCount,
                                                     kMagicHandshakeLen),
                      inputCount |-> ConsumedCount(inputCount, kMagicHandshakeLen),
                      awaiting_handshake |-> FALSE]
                         @@ Return("processIncoming", TRUE))

\* return state->HandlePacket(): the handler gets the packet at the front of
\* the buffer, the packet is consumed, the handler's verdict is returned
PI_HandlePacket ==
    /\ pcP = "pi_dispatch"
    /\ ~awaiting_handshake
    /\ \E ok \in BOOLEAN :
          LET len == Get4BE(inputBuffer)
              eaten == [inputBuffer |-> ConsumedBuffer(inputBuffer, inputCount, len),
                        inputCount |-> ConsumedCount(inputCount, len)]
          IN  Apply(IF ok
                       THEN [handled |-> Append(handled, SubSeq(inputBuffer, 1, len))]
                                @@ eaten @@ Return("processIncoming", TRUE)
                       ELSE eaten @@ Lost)

\* a failure path that closes the connection and returns true
M_PI_Fail ==
    /\ pcP = "pi_fail"
    /\ Apply(IF clientSock >= 0
                THEN [clientSock |-> NoFd] @@ Close1(clientSock)
                         @@ Return("processIncoming", TRUE)
                ELSE Return("processIncoming", TRUE))

\* fail: netState->Close(); return false
PI_Fail ==
    /\ pcP = "pi_fail"
    /\ Apply(IF clientSock >= 0
                THEN [clientSock |-> NoFd] @@ Close1(clientSock) @@ Lost
                ELSE Lost)

(* ------------------------------------------------------------------ *)
(* The environment: adbd, the debugger, the kernel                     *)
(* ------------------------------------------------------------------ *)

\* adbd and the debugger are seen only through recvmsg and select: their
\* events are placed while the JDWP thread waits in one of the two
Waiting == pcP \in {"acc_recvmsg", "pi_select"}

\* a control connection adbd still serves
Served(fd) == fd \in connFds /\ IsOpen(fd) /\ fd \notin hupFds \cup shutFds

\* adbd passes a debugger's descriptor over a control connection
B_SendFd ==
    /\ Waiting
    /\ nClients < MaxClients
    /\ \E fd \in connFds :
          /\ Served(fd)
          /\ fd \notin msgFds \cup bareFds
          /\ Apply([msgFds |-> msgFds \cup {fd}, nClients |-> nClients + 1,
                    parked |-> FALSE])

\* adbd sends the dummy byte with no descriptor attached
B_SendBare ==
    /\ Waiting
    /\ nClients < MaxClients
    /\ \E fd \in connFds :
          /\ Served(fd)
          /\ fd \notin msgFds \cup bareFds
          /\ Apply([bareFds |-> bareFds \cup {fd}, nClients |-> nClients + 1,
                    parked |-> FALSE])

\* adbd closes a control connection: while the thread waits, or between
\* its connect and its send
B_Close ==
    /\ Waiting \/ pcP = "acc_send"
    /\ \E fd \in connFds :
          /\ Served(fd)
          /\ Apply([hupFds |-> hupFds \cup {fd}])

\* the debugger's connection is still up
ClientUp == pcP = "pi_select" /\ IsOpen(curClient) /\ curClient \notin hupFds \cup shutFds

\* the debugger sends the next k bytes of its stream, once the bytes sent
\* before have been read
D_Deliver ==
    /\ ClientUp
    /\ pending = <<>>
    /\ \E k \in chunks \cap 1..Len(unsent) :
          Apply([pending |-> SubSeq(unsent, 1, k),
                 unsent |-> SubSeq(unsent, k + 1, Len(unsent)), parked |-> FALSE])

\* the debugger closes its connection
D_Close ==
    /\ ClientUp
    /\ Apply([hupFds |-> hupFds \cup {curClient}, unsent |-> <<>>])

(* ------------------------------------------------------------------ *)
(* The specifications                                                  *)
(* ------------------------------------------------------------------ *)

Accept ==
    \/ A_Entry \/ A_Retry \/ A_Control \/ A_Socket \/ A_SocketCheck \/ A_Pipe
    \/ A_Connect \/ A_Send \/ A_Sleep
    \/ A_CallReceive \/ A_Recvmsg \/ A_RecvClose \/ A_RecvClear
    \/ A_PostShutdownCheck \/ A_PostClientCheck \/ A_Accepted

Process ==
    \/ PI_Entry \/ PI_FdSet \/ PI_SelectReady \/ PI_SelectIntr \/ PI_SelectError
    \/ PI_AfterSelect \/ PI_Recvmsg \/ PI_Reject
    \/ PI_RecvClose \/ PI_RecvClear \/ PI_Check \/ PI_Client \/ PI_Read
    \/ PI_Handshake \/ PI_HandlePacket
    \/ PI_Fail

Shutdown ==
    \/ S_Start \/ S_ReadClient \/ S_ShutClient \/ S_ClearClient
    \/ S_ReadControl \/ S_ShutControl \/ S_ClearControl \/ S_Wake

Broker == B_SendFd \/ B_SendBare \/ B_Close

Debugger == D_Deliver \/ D_Close

Environment == Broker \/ Debugger

Next == Accept \/ Process \/ Shutdown \/ adbStateFree \/ Environment

Spec == Init /\ [][Next]_vars

\* the transport while nothing shuts it down, with every stream and every
\* way the stream can arrive
DataInit == InitWith({SamplePid}, MaxFdsData, Scripts, AllChunks)

DataNext == Accept \/ Process \/ Environment

DataSpec == DataInit /\ [][DataNext]_vars

\* acceptConnection alone, against adbd, for every process identifier
AcceptInit == InitWith(PidSet, MaxFdsAccept, CoarseScripts, CoarseChunks)

AcceptNext == Accept \/ Broker

AcceptSpec == AcceptInit /\ [][AcceptNext]_vars

\* every thread again, with the scheduling the code can rely on: a thread
\* that can take a step takes one, and a select that keeps finding a
\* descriptor ready is not interrupted by signals for ever.  Nothing is
\* assumed of adbd or of the debugger.
FairInit == InitWith({SamplePid}, MaxFdsFair, PlainScripts, PlainChunks)

FairSpec ==
    /\ FairInit
    /\ [][Next]_vars
    /\ WF_vars(Accept \/ Process)
    /\ WF_vars(Shutdown)
    /\ SF_vars(PI_SelectReady)

\* the transport while nothing shuts it down, with a debugger whose packet
\* fills the input buffer
LargeInit == InitWith({SamplePid}, MaxFdsLarge, LargeScripts, LargeChunks)

LargeSpec == LargeInit /\ [][DataNext]_vars

(* ------------------------------------------------------------------ *)
(* C1: no descriptor is closed twice                                   *)
(* ------------------------------------------------------------------ *)

\* C1: in every interleaving of the JDWP thread with adbStateShutdown,
\* adbStateFree included, each descriptor (control socket, client socket,
\* wake-pipe end, rejected descriptor) is passed to close() at most once.
C1_NoDoubleClose == \A d \in 1..Len(closes) : closes[d] <= 1

\* after adbStateFree: a rejected descriptor, a client socket, a control
\* socket and both ends of a wake pipe have been closed, each once
C1_Witness ==
    /\ freed
    /\ shuttingDown
    /\ rejected # {}
    /\ Cardinality({d \in 1..Len(closes) : closes[d] = 1}) >= 5

(* ------------------------------------------------------------------ *)
(* C2: shutdown wakes the thread parked in select                      *)
(* ------------------------------------------------------------------ *)

\* processIncoming has returned false and shuttingDown is set
C2_Returned ==
    /\ pcP = "idle"
    /\ lastRet = <<"processIncoming", FALSE>>
    /\ shuttingDown

\* C2: when adbStateShutdown is invoked while the JDWP thread is blocked in
\* processIncoming's select with nothing pending on the client or control
\* channel, that wait ends, and it ends only with processIncoming returning
\* false while shuttingDown is true, unless data arrived on one of the two
\* channels first.
C2_ShutdownWakesSelect ==
    /\ parked ~> ~parked
    /\ [][parked /\ ~parked'
            => \/ pending' # <<>>
               \/ msgFds' \cup bareFds' # {}
               \/ C2_Returned']_vars

\* the parked thread has been woken by the finished shutdown and is on its
\* way out of processIncoming
C2_Witness == parked /\ pcS = "done" /\ pcP = "pi_fail"

(* ------------------------------------------------------------------ *)
(* C3: shutdown while acceptConnection runs                            *)
(* ------------------------------------------------------------------ *)

\* the JDWP thread is inside acceptConnection, the descriptor receive at
\* the latest
C3_InAccept ==
    pcP \in {"acc_retry", "acc_control", "acc_socket", "acc_socket_check",
             "acc_pipe", "acc_connect", "acc_send", "acc_sleep", "acc_call_recv",
             "acc_recvmsg", "acc_recv_close", "acc_recv_clear", "acc_post"}

\* C3: once adbStateShutdown has been invoked while the JDWP thread is
\* inside acceptConnection, acceptConnection eventually returns false,
\* whatever adbd does or does not do.
C3_ShutdownEndsAccept ==
    (pcS # "idle" /\ C3_InAccept)
        ~> (pcP = "stopped" /\ lastRet = <<"acceptConnection", FALSE>>)

(* ------------------------------------------------------------------ *)
(* C4: the handshake                                                   *)
(* ------------------------------------------------------------------ *)

\* the handshake literal as the debugger sends it
C4_Literal == <<74, 68, 87, 80, 45, 72, 97, 110, 100, 115, 104, 97, 107, 101>>

\* the step of processIncoming that treats a buffered handshake
C4_Step == pcP = "pi_dispatch" /\ awaiting_handshake /\ pcP' # pcP

\* the 14 bytes are echoed, 14 bytes are consumed and what followed them is
\* at the front, awaiting_handshake is cleared, the call returns true
C4_Accepted ==
    /\ echoed' = echoed \o C4_Literal
    /\ inputCount' = inputCount - 14
    /\ inputBuffer' = SubSeq(inputBuffer, 15, inputCount)
    /\ ~awaiting_handshake'
    /\ pcP' = "connected"
    /\ lastRet' = <<"processIncoming", TRUE>>

\* the connection is on the way to be closed: the buffer is as it was, the
\* next step of the thread closes the client and returns false
C4_Refused ==
    /\ pcP' = "pi_fail"
    /\ UNCHANGED <<inputBuffer, inputCount, awaiting_handshake, lastRet>>

\* C4: on a connection awaiting the handshake, buffered bytes that begin
\* with JDWP-Handshake are echoed (exactly those 14 bytes), exactly 14
\* bytes are consumed, awaiting_handshake is cleared and processIncoming
\* returns true, the write having transferred them all; if one of the 14
\* bytes differs, nothing is written and processIncoming returns false.
C4_HandshakeExact ==
    /\ [][C4_Step =>
            IF SubSeq(inputBuffer, 1, 14) = C4_Literal
               THEN \/ C4_Accepted
                    \/ C4_Refused /\ Len(echoed') < Len(echoed) + 14
               ELSE C4_Refused /\ echoed' = echoed]_vars
    /\ [][pcP = "pi_fail" /\ pcP' # pcP =>
            pcP' = "idle" /\ lastRet' = <<"processIncoming", FALSE>>]_vars

\* the handshake has been echoed and an 11-byte header that arrived with it
\* is at the front of the buffer
C4_Witness ==
    /\ pcP = "connected"
    /\ lastRet = <<"processIncoming", TRUE>>
    /\ echoed = C4_Literal
    /\ ~awaiting_handshake
    /\ inputCount = kJDWPHeaderLen
    /\ handled = <<>>

(* ------------------------------------------------------------------ *)
(* C5: no packet before the handshake                                  *)
(* ------------------------------------------------------------------ *)

\* C5: on every accepted connection, a packet is handed to HandlePacket
\* only after the handshake of that connection has been echoed in full.
C5_HandshakeBeforePackets ==
    [][(pcP = "pi_dispatch" /\ ~awaiting_handshake /\ pcP' # pcP)
          => echoed = kMagicHandshake]_vars

\* a packet has been handled on a connection whose handshake was echoed
C5_Witness == handled # <<>> /\ echoed = kMagicHandshake /\ pcP = "connected"

(* ------------------------------------------------------------------ *)
(* C6: a packet is dispatched when all of it is buffered               *)
(* ------------------------------------------------------------------ *)

\* the debugger's stream from the front of the buffer on
C6_Stream == inputBuffer \o pending \o unsent

\* the length the packet at the front of the stream declares; a header
\* that will never be whole declares nothing below the header's size
C6_Declared ==
    IF Len(C6_Stream) >= 4
       THEN ((C6_Stream[1] * 256 + C6_Stream[2]) * 256 + C6_Stream[3]) * 256
                + C6_Stream[4]
       ELSE kJDWPHeaderLen

\* the bytes a step takes from the socket
C6_Got == Len(pending) - Len(pending')

\* C6: after the handshake, for a packet declaring length L >= 11 and every
\* split of its bytes over reads, a read that leaves fewer than L bytes
\* buffered makes processIncoming return true without dispatching, and the
\* read with which the buffered count first reaches L leads to the dispatch
\* of exactly that packet in the same call.
C6_PacketCompleteness ==
    /\ [][(pcP = "pi_read" /\ ~awaiting_handshake /\ C6_Got > 0) =>
            /\ C6_Declared >= kJDWPHeaderLen
            /\ inputCount < C6_Declared
            /\ inputCount' = inputCount + C6_Got
            /\ inputBuffer' = SubSeq(C6_Stream, 1, inputCount + C6_Got)
            /\ handled' = handled
            /\ IF inputCount + C6_Got < C6_Declared
                  THEN pcP' = "connected" /\ lastRet' = <<"processIncoming", TRUE>>
                  ELSE pcP' = "pi_dispatch"]_vars
    /\ [][(pcP = "pi_dispatch" /\ ~awaiting_handshake /\ pcP' # pcP) =>
            /\ inputCount >= C6_Declared
            /\ inputCount' = inputCount - C6_Declared
            /\ \/ handled' = Append(handled, SubSeq(C6_Stream, 1, C6_Declared))
               \/ lastRet' = <<"processIncoming", FALSE>>]_vars

\* a 12-byte packet has been handled, and of the 11-byte packet behind it
\* all bytes but the last are buffered: the call returned true
C6_Witness ==
    /\ handled = <<Packet(MaxPacketLen)>>
    /\ lastRet = <<"processIncoming", TRUE>>
    /\ pcP = "connected"
    /\ inputCount = kJDWPHeaderLen - 1
    /\ Len(unsent) = 1

(* ------------------------------------------------------------------ *)
(* C7: a second debugger is turned away                                *)
(* ------------------------------------------------------------------ *)

\* what a rejection must leave alone
C7_Kept == <<clientSock, inputCount, inputBuffer, awaiting_handshake, controlSock>>

\* C7: a descriptor that arrives on the control socket while a client is
\* connected is closed at once, is never stored as clientSock and never
\* reaches the packet handler; clientSock, inputCount, the buffered bytes,
\* awaiting_handshake and controlSock stay as they are, and processIncoming
\* goes on instead of returning.
C7_SecondDebuggerRejected ==
    /\ [][(pcP = "pi_recvmsg" /\ pcP' = "pi_reject") =>
            /\ sock' = Len(closes) + 1
            /\ sock' # clientSock'
            /\ UNCHANGED C7_Kept
            /\ UNCHANGED <<lastRet, handled, echoed>>]_vars
    /\ [][(pcP = "pi_reject" /\ pcP' # pcP) =>
            /\ closes[sock] = 0
            /\ closes'[sock] = 1
            /\ pcP' = "pi_client"
            /\ UNCHANGED C7_Kept
            /\ UNCHANGED <<lastRet, handled, echoed>>]_vars
    /\ [](\A d \in rejected : closes[d] = 1 /\ d # clientSock)

\* a second debugger has been turned away, the first is still connected and
\* the thread is still inside processIncoming
C7_Witness ==
    /\ rejected # {}
    /\ pcP = "pi_client"
    /\ clientSock >= 0
    /\ closes[clientSock] = 0
    /\ lastRet = <<"processIncoming", TRUE>>
    /\ ~awaiting_handshake

(* ------------------------------------------------------------------ *)
(* C8: the receive is retried five times                               *)
(* ------------------------------------------------------------------ *)

\* C8: in one call of acceptConnection without shutdown the descriptor
\* receive is attempted at most 1 + 5 times, and the call returns false
\* when the receive has failed with the retry count at 5.
C8_RetriesBounded ==
    /\ [](recvAttempts <= kMaxRetries + 1 /\ retryCount <= kMaxRetries)
    /\ [][(pcP = "acc_post_client" /\ clientSock < 0 /\ retryCount = kMaxRetries
              /\ pcP' # pcP)
            => pcP' = "stopped" /\ lastRet' = <<"acceptConnection", FALSE>>]_vars

\* the call has given up after the sixth failed receive
C8_Witness ==
    /\ pcP = "stopped"
    /\ lastRet = <<"acceptConnection", FALSE>>
    /\ recvAttempts = kMaxRetries + 1
    /\ clientSock < 0
    /\ controlSock < 0

(* ------------------------------------------------------------------ *)
(* C9: the back-off                                                    *)
(* ------------------------------------------------------------------ *)

\* the i-th sleep of a connector run, in ms
C9_Expected(i) ==
    IF i = 1 THEN 500
    ELSE IF i = 2 THEN 750
    ELSE IF i = 3 THEN 1125
    ELSE IF i = 4 THEN 1687
    ELSE 2000

\* C9 (as amended): the sleeps of the reconnect loop start at 500 ms, each is
\* the one before plus half of it rounded down (500, 750, 1125, 1687), capped
\* at 2000 ms, and none exceeds 2000 ms.
C9_Backoff ==
    /\ \A i \in 1..Len(sleepLog) : sleepLog[i] = C9_Expected(i)
    /\ sleep_ms <= 2000

\* C9 (as stated): the sleeps start at 500 ms, each is 1.5 times the one
\* before capped at 2000 ms, and none exceeds 2000 ms.
C9_Original ==
    /\ \A i \in 1..Len(sleepLog) :
          /\ i = 1 => sleepLog[i] = 500
          /\ i > 1 => 2 * sleepLog[i] = Min(3 * sleepLog[i - 1], 2 * 2000)
          /\ sleepLog[i] <= 2000
    /\ sleep_ms <= 2000

\* a run that slept five times: the fourth sleep is 1687 ms, the fifth is
\* capped
C9_Witness ==
    /\ Len(sleepLog) >= 5
    /\ sleepLog[4] = 1687
    /\ sleepLog[5] = 2000
    /\ pcP = "acc_connect"

(* ------------------------------------------------------------------ *)
(* C10: the announced process identifier                               *)
(* ------------------------------------------------------------------ *)

\* C10: the 4 bytes announced on the control socket after connect are the
\* zero-padded lowercase hexadecimal digits of the process identifier's low
\* 16 bits, for every process identifier.
C10_AnnouncesLow16Bits ==
    (pcP = "acc_call_recv" /\ Len(announced) = 4)
        => announced = ZeroPad(HexDigits(pid % 65536), 4)

(* ------------------------------------------------------------------ *)
(* C11: every open descriptor is tracked                               *)
(* ------------------------------------------------------------------ *)

\* the descriptors the state record refers to, and the one a second
\* debugger's connection is held in until it is closed
C11_Tracked == {controlSock, clientSock, wakeFds[1], wakeFds[2], sock}

\* C11: every descriptor the transport opened or received and has not closed
\* is referenced by controlSock, clientSock or wakeFds: no field is set to -1
\* or overwritten while the descriptor it held is still open.
C11_OpenDescriptorsTracked ==
    \A fd \in 1..Len(closes) : closes[fd] = 0 => fd \in C11_Tracked

(* ------------------------------------------------------------------ *)
(* C12: what holds when acceptConnection returns true                  *)
(* ------------------------------------------------------------------ *)

\* the step in which acceptConnection returns true
C12_ReturnsTrue ==
    /\ pcP \in {"acc_retry", "acc_control", "acc_socket", "acc_socket_check",
                "acc_pipe", "acc_connect", "acc_send", "acc_sleep", "acc_call_recv",
                "acc_recvmsg", "acc_recv_close", "acc_recv_clear", "acc_post",
                "acc_post_client", "acc_accepted"}
    /\ lastRet' = <<"acceptConnection", TRUE>>
    /\ pcP' = "connected"

\* the two places where acceptConnection tests shuttingDown: on entry (and on
\* every retry), and after the receive
C12_AtShutdownCheck == pcP \in {"acc_retry", "acc_post"}

\* C12: whenever acceptConnection returns true, clientSock holds the received
\* descriptor (>= 0), awaiting_handshake is true and inputCount is 0; with
\* shuttingDown true at entry or at the check after the receive (the flag is
\* never reset) the call returns false.
C12_AcceptPostconditions ==
    [][/\ C12_ReturnsTrue
          => clientSock' >= 0 /\ awaiting_handshake' /\ inputCount' = 0
       /\ shuttingDown => shuttingDown'
       /\ (C12_AtShutdownCheck /\ shuttingDown /\ pcP' # pcP)
          => lastRet' = <<"acceptConnection", FALSE>> /\ pcP' = "stopped"]_vars

(* ------------------------------------------------------------------ *)
(* C13: no use of a descriptor the other thread has closed             *)
(* ------------------------------------------------------------------ *)

\* C13: the JDWP thread's close-and-clear of controlSock and clientSock is
\* synchronised with adbStateShutdown's read-and-shutdown of them: no thread
\* operates on a descriptor value after the other thread has closed it.
C13_NoUseAfterClose == ~staleUse

(* ------------------------------------------------------------------ *)
(* C14: one wake pipe per session                                      *)
(* ------------------------------------------------------------------ *)

\* acceptConnection is about to create the wake pipe, and pipe() will succeed
C14_CreatesPipe == pcP = "acc_pipe" /\ NextFd + 1 <= rlimit

\* C14: the wake pipe is created only while wakeFds holds no open descriptor
\* (at most one wake pipe per session).
C14_SingleWakePipe ==
    C14_CreatesPipe => ~IsOpen(wakeFds[1]) /\ ~IsOpen(wakeFds[2])

(* ------------------------------------------------------------------ *)
(* C15: a short or failed announcement is a hard failure               *)
(* ------------------------------------------------------------------ *)

\* C15: when the send of the process identifier transfers fewer than 4 bytes
\* or fails, acceptConnection returns false and does not go on to receive a
\* descriptor: it goes on only with all 4 bytes sent.
C15_ShortSendFails ==
    [][(pcP = "acc_send" /\ pcP' # pcP)
          => \/ pcP' = "acc_call_recv" /\ Len(announced') = kPidChars
             \/ pcP' = "stopped" /\ lastRet' = <<"acceptConnection", FALSE>>]_vars

(* ------------------------------------------------------------------ *)
(* C16: one read and one action per call of processIncoming            *)
(* ------------------------------------------------------------------ *)

\* processIncoming has returned true
C16_ReturnedTrue == pcP = "connected" /\ lastRet = <<"processIncoming", TRUE>>

\* the step is a successful read of the client socket: bytes are taken
\* from it (an interrupted read takes none and returns true)
C16_Reads == pcP = "pi_read" /\ Len(pending') < Len(pending)

\* the step echoes handshake bytes, the step hands a packet to the handler
C16_Echoes == Len(echoed') > Len(echoed)
C16_Dispatches == Len(handled') > Len(handled)

\* C16: a call of processIncoming reads the client socket successfully at
\* most once and performs at most one of the handshake echo and a packet
\* dispatch: a positive read adds exactly the count read to inputCount and is
\* followed only by the echo or the dispatch, or by returning true while the
\* packet is incomplete; the echo and the dispatch end the call.
C16_OneReadOneAction ==
    [][/\ C16_Reads
          => /\ inputCount' = inputCount + (Len(pending) - Len(pending'))
             /\ \/ pcP' = "pi_dispatch"
                \/ /\ C16_ReturnedTrue'
                   /\ ~HaveFullPacket(awaiting_handshake', inputBuffer', inputCount')
       /\ inputCount' > inputCount => C16_Reads
       /\ (C16_Echoes \/ C16_Dispatches)
          => pcP = "pi_dispatch" /\ ~(C16_Echoes /\ C16_Dispatches)
       /\ (pcP = "pi_dispatch" /\ pcP' # pcP) => pcP' \in {"connected", "idle", "pi_fail"}
       /\ (pcP = "pi_fail" /\ pcP' # pcP) => pcP' = "idle"]_vars

\* a call that read part of a packet and returned true, after an earlier
\* call dispatched a packet
C16_Witness ==
    /\ C16_ReturnedTrue
    /\ handled # <<>>
    /\ inputCount > 0
    /\ ~HaveFullPacket(awaiting_handshake, inputBuffer, inputCount)

(* ------------------------------------------------------------------ *)
(* C17: the count of buffered bytes stays within the buffer            *)
(* ------------------------------------------------------------------ *)

\* the bytes a step takes from the client socket
C17_Got == Len(pending) - Len(pending')

\* the step is a read of the client socket that returned data
C17_Reads == pcP = "pi_read" /\ Len(pending') < Len(pending)

\* C17: 0 <= inputCount <= 8192 always; a read transfers no more than the
\* room left in the buffer (8192 - inputCount) and inputCount grows only by
\* the count a read returned; a successful accept resets it to 0.
C17_InputCountBounded ==
    /\ inputCount \in 0..kInputBufferSize
    /\ [][/\ inputCount' \in 0..kInputBufferSize
          /\ C17_Reads
             => /\ C17_Got \in 1..(kInputBufferSize - inputCount)
                /\ inputCount' = inputCount + C17_Got
          /\ inputCount' > inputCount => C17_Reads
          /\ (pcP = "acc_accepted" /\ lastRet' = <<"acceptConnection", TRUE>>
                 /\ pcP' = "connected")
             => inputCount' = 0]_vars

\* a read that was cut to the room left filled the buffer: more is pending,
\* the packet is not complete, the call returned true
C17_Witness ==
    /\ inputCount = kInputBufferSize
    /\ pending # <<>>
    /\ pcP = "connected"
    /\ lastRet = <<"processIncoming", TRUE>>

(* ------------------------------------------------------------------ *)
(* C18: the CHECKs of processIncoming                                  *)
(* ------------------------------------------------------------------ *)

\* C18: CHECK_GE(clientSock, 0) at the entry of processIncoming holds on
\* every call that follows an acceptConnection that returned true, also
\* while adbStateShutdown runs on another thread, and CHECK_LT(controlSock, 0)
\* after a failed receive of a descriptor holds: no CHECK ever fails.
C18_ChecksHold == ~checkFailed /\ pcP # "aborted"

(* ------------------------------------------------------------------ *)
(* C19: a connection lost inside processIncoming is closed             *)
(* ------------------------------------------------------------------ *)

\* processIncoming leaves by its failure path: a failed select, the wake
\* signal, a failed read, end of file, a bad handshake, a short echo
C19_FailureReturn ==
    pcP = "pi_fail" /\ pcP' = "idle" /\ lastRet' = <<"processIncoming", FALSE>>

\* C19: whenever processIncoming reports a connection loss that arose inside
\* it, the debugger's connection has been closed and clientSock is -1 on
\* return, and the failure path changes neither inputCount nor controlSock.
C19_FailureClosesClient ==
    [][C19_FailureReturn
          => /\ clientSock' = NoFd
             /\ curClient \in 1..Len(closes) => closes'[curClient] > 0
             /\ UNCHANGED <<inputCount, controlSock>>]_vars

(* ------------------------------------------------------------------ *)
(* C20: a packet longer than the buffer ends the connection            *)
(* ------------------------------------------------------------------ *)

\* the buffer is full and the packet at its front declares more than fits
C20_Overfull ==
    /\ inputCount = kInputBufferSize
    /\ ~awaiting_handshake
    /\ Get4BE(inputBuffer) > kInputBufferSize

\* C20: with inputCount = 8192 and a packet declared longer than the buffer,
\* the call that finds the client readable reads with a capacity of zero,
\* gets nothing, takes that for a disconnect and returns false; a packet
\* declared longer than the buffer is never dispatched.
C20_OverfullBufferLosesConnection ==
    [][/\ (C20_Overfull /\ pcP = "pi_read" /\ pcP' # pcP)
          => pcP' = "pi_fail" /\ UNCHANGED <<inputCount, inputBuffer, pending>>
       /\ (C20_Overfull /\ pcP = "pi_fail" /\ pcP' # pcP)
          => pcP' = "idle" /\ lastRet' = <<"processIncoming", FALSE>>
       /\ (C20_Overfull /\ pcP = "connected" /\ pcP' # pcP) => pcP' = "pi_fdset"
       /\ Len(handled') > Len(handled)
          => Get4BE(handled'[Len(handled')]) <= kInputBufferSize]_vars

\* the zero-capacity read has just returned nothing although a byte of the
\* packet is waiting on the socket
C20_Witness ==
    /\ C20_Overfull
    /\ pcP = "pi_fail"
    /\ pending # <<>>
    /\ IsOpen(clientSock)

====
